---- MODULE Spec2Model ----
(***************************************************************************)
(* Model of the orchestration layer of compass (src/compass/main.py):      *)
(* the chunk partition of precacheCompass, the per-sample runner           *)
(* _parallel_map_fun, the local worker pool of runCompassParallel and the  *)
(* result collector collectCompassResults, and entry, the command that     *)
(* parses the arguments and decides which of them run.                     *)
(***************************************************************************)
EXTENDS Integers, Sequences, FiniteSets, TLC

(* ---- bounds of the model ---- *)
MaxItems == 7
MaxRequested == 4
MaxCpu == 3
MaxWorkers == 2
MaxSamples == 4
MaxFaults == 1
MaxCollect == 3
MaxEntryItems == 1
MaxEntryCpu == 2
MaxEntrySamples == 1
MaxRestarts == 2

VARIABLES
    \* precacheCompass
    num_processes,   \* args['num_processes']: <<>> is None, <<n>> is the integer n
    cpu_count,       \* multiprocessing.cpu_count()
    n_reactions,     \* len(model.reactions.values())
    n_metabs,        \* len(problem.linear_constraints.get_names())
    chunk_size,      \* the local chunk_size
    chunks,          \* the local chunks (rebuilt for the metabolites)
    pcPre,           \* position in precacheCompass
    store,           \* the persisted cache entry of the run's (model, media) key
    model_cache,     \* the entry as the cache module holds it in memory
    combined_cache,  \* the local combined_cache
    merged,          \* the chunks whose sub_cache the current loop has received
    prePools,        \* the sizes of the pools precacheCompass has created
    \* runCompassParallel, the pool and _parallel_map_fun
    n_samples,       \* len(data.columns)
    fault,           \* what scoring sample i does: "ok" or the class it raises
    pcRun,           \* position of the orchestrator in runCompassParallel
    pool,            \* number of worker processes of the pool, 0 before it exists
    taskq,           \* sample indices not yet handed to a worker, in order
    outq,            \* results posted by the workers, in completion order
    pbar,            \* the progress counter (tqdm.n)
    yielded,         \* number of results the loop body has received
    runError,        \* the error raised out of runCompassParallel, <<>> if none
    wpc,             \* per worker: position in _parallel_map_fun
    wtask,           \* per worker: the sample index i it is running
    stdout,          \* per worker process: sys.stdout
    stderr,          \* per worker process: sys.stderr
    stdout_bak,      \* per worker: the local stdout_bak
    stderr_bak,      \* per worker: the local stderr_bak
    exits,           \* per sample: how its call of _parallel_map_fun ended, <<>> while it has not
    started,         \* per sample: number of times the worker function was entered
    sampleFiles,     \* per sample: the result files present in <temp>/sample<i>
    \* collectCompassResults
    no_reactions,    \* args['no_reactions']
    calc_metabolites,\* args['calc_metabolites']
    pcCol,           \* position of a stand-alone collect run
    outWrites,       \* the files written into out_dir, in the order of the writes
    \* entry and parseArgs
    cli,             \* the validated options as the command line gives them
    config_file,     \* <<>> without --config-file, else <<its entries>>
    args,            \* the other entries of the args dictionary
    pcEntry,         \* position in entry
    size_of_cache,   \* the local size_of_cache, <<>> before it is set
    token,           \* <temp>/success_token_penalties exists
    penalties,       \* <temp>/penalties.txt.gz: "absent", "partial" or "complete"
    did,             \* what this invocation has done so far
    restarts         \* number of times the command was started again

preVars == <<num_processes, cpu_count, n_reactions, n_metabs, chunk_size, chunks, pcPre>>
runVars == <<n_samples, fault, pcRun, pool, taskq, outq, pbar, yielded, runError,
             wpc, wtask, stdout, stderr, stdout_bak, stderr_bak, exits,
             started, sampleFiles>>
colVars == <<no_reactions, calc_metabolites, pcCol, outWrites>>
cacheVars == <<store, model_cache, combined_cache, merged, prePools>>
entVars == <<cli, config_file, args, pcEntry, size_of_cache, token, penalties, did, restarts>>
vars == <<preVars, runVars, colVars, cacheVars, entVars>>

(***************************************************************************)
(* precacheCompass: worker count and chunk lists                           *)
(***************************************************************************)

\* A broken ceil: floor division
FloorDiv(n, p) == n \div p

\* int(ceil(n / p)) under true division, n >= 0, p >= 1
CeilDiv(n, p) == (n + p - 1) \div p

Min(a, b) == IF a < b THEN a ELSE b

\* [(i*chunk_size, min(n, (i+1)*chunk_size)) for i in range(n_processes)]
ChunkList(n, size, p) ==
    [k \in 1..p |-> <<(k - 1) * size, Min(n, k * size)>>]

\* the indices a worker visits for a chunk (start, stop): range(start, stop)
IndexSet(c) == c[1] .. (c[2] - 1)

\* num_processes after the two clamping statements
\* a broken clamp: the requested count is used as it is
NoClamp(requested, cpus) == IF requested = <<>> THEN cpus ELSE requested[1]

ClampProcesses(requested, cpus) ==
    LET given == IF requested = <<>> THEN cpus ELSE requested[1]
    IN  IF given > cpus THEN cpus ELSE given

(* ---- the cache: mappings from identifiers to computed ranges ---- *)

\* a broken merge: the additions replace the mapping
Replace(a, b) == b

\* dict.update: a.update(b)
Update(a, b) ==
    [k \in (DOMAIN a) \cup (DOMAIN b) |-> IF k \in DOMAIN b THEN b[k] ELSE a[k]]

\* len(mapping)
Size(m) == Cardinality(DOMAIN m)

\* the identifiers of the reactions and of the metabolites of the model
ReactionKeys(n) == {<<"reaction", j>> : j \in 0..(n - 1)}
MetabKeys(n) == {<<"metabolite", j>> : j \in 0..(n - 1)}

\* what maximize_reaction_range / maximize_metab_range return for a chunk:
\* one freshly computed entry per index of the chunk
SubCache(kind, c) == [k \in {<<kind, j>> : j \in IndexSet(c)} |-> "computed"]

\* cache.load: the entry of the key as the module holds it, read from the
\* store the first time
CacheLoad(mc, st) == IF mc.loaded THEN mc ELSE [loaded |-> TRUE, map |-> st]

\* cache.save: the entry held in memory becomes the persisted one
CacheSave(mc) == mc.map

\* a precompute that never writes the result back: the save persists what was loaded
MergeNothing(loadedMap, combined) == loadedMap

\* model_cache.update(combined_cache)
MergeIntoLoaded(loadedMap, combined) == Update(loadedMap, combined)

\* the entries an earlier run may have left for the key
StoreChoices(nr, nm) ==
    LET all == [k \in ReactionKeys(nr) \cup MetabKeys(nm) |-> "stored"]
        stale == [k \in {<<"reaction", nr>>} |-> "stored"]
    IN  {<<>>, all, Update(all, stale)}

PreInit ==
    /\ num_processes \in {<<>>} \cup {<<r>> : r \in 1..MaxRequested}
    /\ cpu_count \in 1..MaxCpu
    /\ n_reactions \in 0..MaxItems
    /\ n_metabs \in 0..MaxItems
    /\ chunk_size = 0
    /\ chunks = <<>>
    /\ pcPre = "start"

PrecacheClamp ==
    /\ pcPre = "start"
    /\ num_processes' = <<ClampProcesses(num_processes, cpu_count)>>
    /\ pcPre' = "clamped"
    /\ UNCHANGED <<cpu_count, n_reactions, n_metabs, chunk_size, chunks>>
    /\ UNCHANGED <<runVars, colVars, cacheVars, entVars>>

\* the reaction chunks, the empty combined_cache and the first pool
PrecacheReactionChunks ==
    /\ pcPre = "clamped"
    /\ chunk_size' = CeilDiv(n_reactions, num_processes[1])
    /\ chunks' = ChunkList(n_reactions, chunk_size', num_processes[1])
    /\ combined_cache' = <<>>
    /\ prePools' = Append(prePools, num_processes[1])
    /\ merged' = {}
    /\ pcPre' = "reactions"
    /\ UNCHANGED <<num_processes, cpu_count, n_reactions, n_metabs>>
    /\ UNCHANGED <<store, model_cache>>
    /\ UNCHANGED <<runVars, colVars, entVars>>

\* a broken loop: it may end before every chunk has delivered
SomeChunksIn(received, n) == received \subseteq 1..n

\* either imap_unordered loop ends once every chunk has delivered its
\* sub_cache
AllChunksIn(received, n) == received = 1..n

\* the positions at which precacheCompass is under way
PrecacheActive == {"start", "clamped", "reactions", "metabs"}

\* one turn of either imap_unordered loop: the next sub_cache to arrive is
\* that of chunk k, any chunk that has not arrived yet
PrecacheMerge(k) ==
    /\ pcPre \in {"reactions", "metabs"}
    /\ k \in (1..Len(chunks)) \ merged
    /\ combined_cache' =
          Update(combined_cache,
                 SubCache(IF pcPre = "reactions" THEN "reaction" ELSE "metabolite",
                          chunks[k]))
    /\ merged' = merged \cup {k}
    /\ UNCHANGED <<preVars, store, model_cache, prePools>>
    /\ UNCHANGED <<runVars, colVars, entVars>>

\* the metabolite chunks and the second pool, once every reaction chunk is in
PrecacheMetabChunks ==
    /\ pcPre = "reactions"
    /\ AllChunksIn(merged, Len(chunks))
    /\ chunk_size' = CeilDiv(n_metabs, num_processes[1])
    /\ chunks' = ChunkList(n_metabs, chunk_size', num_processes[1])
    /\ prePools' = Append(prePools, num_processes[1])
    /\ merged' = {}
    /\ pcPre' = "metabs"
    /\ UNCHANGED <<num_processes, cpu_count, n_reactions, n_metabs>>
    /\ UNCHANGED <<store, model_cache, combined_cache>>
    /\ UNCHANGED <<runVars, colVars, entVars>>

\* cache.load(model), model_cache.update(combined_cache), cache.save(model)
PrecacheSave ==
    /\ pcPre = "metabs"
    /\ AllChunksIn(merged, Len(chunks))
    /\ model_cache' =
          [loaded |-> TRUE,
           map |-> MergeIntoLoaded(CacheLoad(model_cache, store).map, combined_cache)]
    /\ store' = CacheSave(model_cache')
    /\ did' = [did EXCEPT !.loads = @ + 1, !.saves = @ + 1]
    /\ pcPre' = "done"
    /\ UNCHANGED <<num_processes, cpu_count, n_reactions, n_metabs, chunk_size, chunks>>
    /\ UNCHANGED <<combined_cache, merged, prePools>>
    /\ UNCHANGED <<cli, config_file, args, pcEntry, size_of_cache, token, penalties, restarts>>
    /\ UNCHANGED <<runVars, colVars>>

\* the worker of chunk k raises: the iterator raises its exception in the
\* loop, and it leaves precacheCompass and entry, which catch nothing
PrecacheFail(k) ==
    /\ pcPre \in {"reactions", "metabs"}
    /\ k \in (1..Len(chunks)) \ merged
    /\ pcPre' = "raised"
    /\ pcEntry' = "raised"
    /\ UNCHANGED <<num_processes, cpu_count, n_reactions, n_metabs, chunk_size, chunks>>
    /\ UNCHANGED <<cli, config_file, args, size_of_cache, token, penalties, did, restarts>>
    /\ UNCHANGED <<runVars, colVars, cacheVars>>

\* the process is killed or interrupted during precacheCompass
PrecacheInterrupt ==
    /\ pcPre \in PrecacheActive
    /\ pcPre' = "interrupted"
    /\ pcEntry' = "interrupted"
    /\ UNCHANGED <<num_processes, cpu_count, n_reactions, n_metabs, chunk_size, chunks>>
    /\ UNCHANGED <<cli, config_file, args, size_of_cache, token, penalties, did, restarts>>
    /\ UNCHANGED <<runVars, colVars, cacheVars>>

PreNext ==
    \/ PrecacheClamp
    \/ PrecacheReactionChunks
    \/ \E k \in 1..MaxCpu : PrecacheMerge(k)
    \/ PrecacheMetabChunks
    \/ PrecacheSave
    \/ \E k \in 1..MaxCpu : PrecacheFail(k)
    \/ PrecacheInterrupt

(***************************************************************************)
(* Exceptions: classes, str(type(e)) and the translation of                *)
(* _parallel_map_fun                                                       *)
(***************************************************************************)

(* str(type(e)) of the classes of the model, character by character *)
\* <class 'cplex.exceptions.errors.CplexSolverError'>
Name_CplexSolverError ==
    <<"<", "c", "l", "a", "s", "s", " ", "'", "c", "p", "l", "e", "x", ".",
      "e", "x", "c", "e", "p", "t", "i", "o", "n", "s", ".", "e", "r", "r",
      "o", "r", "s", ".", "C", "p", "l", "e", "x", "S", "o", "l", "v", "e",
      "r", "E", "r", "r", "o", "r", "'", ">">>

\* <class 'solver.CPLEXError'>
Name_CPLEXError ==
    <<"<", "c", "l", "a", "s", "s", " ", "'", "s", "o", "l", "v", "e", "r",
      ".", "C", "P", "L", "E", "X", "E", "r", "r", "o", "r", "'", ">">>

\* <class 'ValueError'>
Name_ValueError ==
    <<"<", "c", "l", "a", "s", "s", " ", "'", "V", "a", "l", "u", "e", "E",
      "r", "r", "o", "r", "'", ">">>

\* <class 'OSError'>
Name_OSError ==
    <<"<", "c", "l", "a", "s", "s", " ", "'", "O", "S", "E", "r", "r", "o",
      "r", "'", ">">>

\* <class 'KeyboardInterrupt'>
Name_KeyboardInterrupt ==
    <<"<", "c", "l", "a", "s", "s", " ", "'", "K", "e", "y", "b", "o", "a",
      "r", "d", "I", "n", "t", "e", "r", "r", "u", "p", "t", "'", ">">>

\* <class 'Exception'>
Name_Exception ==
    <<"<", "c", "l", "a", "s", "s", " ", "'", "E", "x", "c", "e", "p", "t",
      "i", "o", "n", "'", ">">>

\* the classes the code under a sample can raise
RaisedClasses == {"CplexSolverError", "CPLEXError", "ValueError", "OSError",
                  "KeyboardInterrupt"}

\* str(type(e))
TypeStr(cls) ==
    CASE cls = "CplexSolverError" -> Name_CplexSolverError
      [] cls = "CPLEXError" -> Name_CPLEXError
      [] cls = "ValueError" -> Name_ValueError
      [] cls = "OSError" -> Name_OSError
      [] cls = "KeyboardInterrupt" -> Name_KeyboardInterrupt
      [] cls = "Exception" -> Name_Exception

\* isinstance(e, Exception): KeyboardInterrupt derives from BaseException only
IsException(cls) == cls # "KeyboardInterrupt"

\* str.lower() of one character
LowerChar(c) ==
    CASE c = "C" -> "c" [] c = "P" -> "p" [] c = "L" -> "l" [] c = "E" -> "e"
      [] c = "X" -> "x" [] c = "S" -> "s" [] c = "V" -> "v" [] c = "O" -> "o"
      [] c = "K" -> "k" [] c = "I" -> "i"
      [] OTHER -> c

\* str.lower()
Lower(s) == [k \in 1..Len(s) |-> LowerChar(s[k])]

\* needle in hay
Contains(hay, needle) ==
    \E k \in 1..(Len(hay) - Len(needle) + 1) :
        SubSeq(hay, k, k + Len(needle) - 1) = needle

\* a broken test: the type name is not lowered
IsCplexCaseSensitive(cls) == Contains(TypeStr(cls), <<"c", "p", "l", "e", "x">>)

\* 'cplex' in str(type(e)).lower()
IsCplex(cls) == Contains(Lower(TypeStr(cls)), <<"c", "p", "l", "e", "x">>)

\* the exception object that scoring sample i raises
RaisedBy(i, cls) == [cls |-> cls, msg |-> <<"message of", i>>, oid |-> <<"raised", i>>]

\* Exception(str(e)): a new object of class Exception with the message only
PlainException(e) == [cls |-> "Exception", msg |-> e.msg, oid |-> <<"wrapped", e.oid>>]

\* a broken except clause: every exception is raised again as it is
Reraise(e) == e

\* what the except clause raises for the caught exception e
Translate(e) == IF IsCplex(e.cls) THEN PlainException(e) ELSE e

(***************************************************************************)
(* Streams and per-sample files                                            *)
(***************************************************************************)

OrigStdout == <<"<stdout>">>
OrigStderr == <<"<stderr>">>
\* the file objects fout and ferr of sample i
Fout(i) == <<"out.log", i>>
Ferr(i) == <<"err.log", i>>

Kinds == {"reactions.txt", "secretions.txt", "uptake.txt"}

\* the result files a successful singleSampleCompass leaves in its directory
ScoringFiles(noReact, calcMet) ==
    (IF noReact THEN {} ELSE {"reactions.txt"})
    \cup (IF calcMet THEN {"secretions.txt", "uptake.txt"} ELSE {})

(***************************************************************************)
(* collectCompassResults                                                   *)
(***************************************************************************)

\* expression.columns[i]
SampleName(i) == <<"sample", i>>

\* the row identifiers of the table a sample's scoring writes; they differ
\* between samples
RowsOf(i) == IF i % 2 = 0 THEN {"r1", "r2"} ELSE {"r2", "r3"}

NaN == <<"NaN">>

\* the table pd.read_csv(..., index_col=0) returns for a file that is there
FileFrame(i, kind) ==
    [columns |-> <<SampleName(i)>>,
     index |-> RowsOf(i),
     cells |-> <<[r \in RowsOf(i) |-> <<kind, i, r>>]>>]

\* a broken placeholder: pd.DataFrame() without the column
NoColumnFrame(name) == [columns |-> <<>>, index |-> {}, cells |-> <<>>]

\* pd.DataFrame(columns=[sample_name])
Placeholder(name) == [columns |-> <<name>>, index |-> {}, cells |-> << <<>> >>]

\* one try/except of the gathering loop: the file's table, or the placeholder
\* when reading raises (the file is absent or unreadable)
Gather(files, i, kind) ==
    IF kind \in files[i] THEN FileFrame(i, kind) ELSE Placeholder(SampleName(i))

\* reactions_all, secretions_all or uptake_all after the loop
GatherAll(files, n, kind) == [k \in 1..n |-> Gather(files, k - 1, kind)]

RECURSIVE Flatten(_)
Flatten(seqs) == IF seqs = <<>> THEN <<>> ELSE Head(seqs) \o Flatten(Tail(seqs))

\* pd.concat raises ValueError("No objects to concatenate") for an empty list
ConcatRaises(frames) == frames = <<>>

ConcatError == [cls |-> "ValueError", msg |-> <<"No objects to concatenate">>,
                oid |-> <<"concat">>]

\* pd.concat(frames, axis=1, sort=True): outer join on the row identifier
Concat(frames) ==
    LET idx == UNION {frames[k].index : k \in 1..Len(frames)}
        widen(f) == [c \in 1..Len(f.columns) |->
                        [r \in idx |-> IF r \in f.index THEN f.cells[c][r] ELSE NaN]]
    IN  [columns |-> Flatten([k \in 1..Len(frames) |-> frames[k].columns]),
         index |-> idx,
         cells |-> Flatten([k \in 1..Len(frames) |-> widen(frames[k])])]

\* if not args['no_reactions']
ReactionsEnabled(noReact) == ~noReact

\* the "Join and output" part and the model dump: the files written, in order,
\* and the exception that ended the call, if any
Collect(n, files, noReact, calcMet) ==
    LET table(name, kind) == [name |-> name, content |-> Concat(GatherAll(files, n, kind))]
        fails(kind) == ConcatRaises(GatherAll(files, n, kind))
        r == IF ~ReactionsEnabled(noReact) THEN [error |-> <<>>, writes |-> <<>>]
             ELSE IF fails("reactions.txt") THEN [error |-> <<ConcatError>>, writes |-> <<>>]
             ELSE [error |-> <<>>, writes |-> <<table("reactions.tsv", "reactions.txt")>>]
        s == IF r.error # <<>> \/ ~calcMet THEN r
             ELSE IF fails("secretions.txt") THEN [r EXCEPT !.error = <<ConcatError>>]
             ELSE [r EXCEPT !.writes = @ \o <<table("secretions.tsv", "secretions.txt")>>]
        u == IF s.error # <<>> \/ ~calcMet THEN s
             ELSE IF fails("uptake.txt") THEN [s EXCEPT !.error = <<ConcatError>>]
             ELSE [s EXCEPT !.writes = @ \o <<table("uptake.tsv", "uptake.txt")>>]
    IN  IF u.error # <<>> THEN u
        ELSE [u EXCEPT !.writes = @ \o <<[name |-> "model.json.gz",
                                          content |-> <<"model.to_JSON()">>]>>]

(***************************************************************************)
(* _parallel_map_fun, run by a worker process of the pool                  *)
(***************************************************************************)

Workers == 1..MaxCpu

\* what scoring a sample can do: return, or raise one of these; "logger"
\* is globals.init_logger(sample_dir) raising OSError before the try block
ScoringClasses == {"CplexSolverError", "CPLEXError", "ValueError", "KeyboardInterrupt"}
Faults == {"logger"} \cup ScoringClasses
\* the failures of a sample in the runs of the whole pool
RunFaults == {"CplexSolverError", "ValueError", "KeyboardInterrupt"}

\* how a call for a sample ended, with the streams of the process at that moment
\* and the streams that were in place when the call began
ExitRecord(how, exc, w, out, err) ==
    [how |-> how, exc |-> exc, out |-> out, err |-> err,
     bak_out |-> stdout_bak[w], bak_err |-> stderr_bak[w]]

\* the worker takes the next sample index and runs the function up to the
\* try block: the streams are redirected, then init_logger and the debug
\* lines run; an exception there leaves the function at once
WStart(w) ==
    /\ w <= pool
    /\ pcRun # "exited"
    /\ wpc[w] = "idle"
    /\ taskq # <<>>
    /\ LET i == Head(taskq)
           e == RaisedBy(i, "OSError")
       IN
        /\ taskq' = Tail(taskq)
        /\ started' = [started EXCEPT ![i] = @ + 1]
        /\ stdout' = [stdout EXCEPT ![w] = Fout(i)]
        /\ stderr' = [stderr EXCEPT ![w] = Ferr(i)]
        /\ IF fault[i] = "logger"
           THEN /\ exits' = [exits EXCEPT ![i] =
                                <<[how |-> "raise", exc |-> <<e>>,
                                   out |-> stdout'[w], err |-> stderr'[w],
                                   bak_out |-> stdout[w], bak_err |-> stderr[w]]>>]
                /\ outq' = Append(outq, [ok |-> FALSE, exc |-> <<e>>])
                /\ UNCHANGED <<wpc, wtask, stdout_bak, stderr_bak>>
           ELSE /\ wtask' = [wtask EXCEPT ![w] = i]
                /\ stdout_bak' = [stdout_bak EXCEPT ![w] = stdout[w]]
                /\ stderr_bak' = [stderr_bak EXCEPT ![w] = stderr[w]]
                /\ wpc' = [wpc EXCEPT ![w] = "scoring"]
                /\ UNCHANGED <<exits, outq>>
    /\ UNCHANGED <<n_samples, fault, pcRun, pool, pbar, yielded, runError, sampleFiles>>
    /\ UNCHANGED <<preVars, colVars, cacheVars, entVars>>

\* the try block: singleSampleCompass returns, or raises and the except
\* clause restores the streams and raises the translated exception; an
\* exception that is no Exception passes the except clause and ends the
\* worker process, which the pool replaces
WScore(w) ==
    /\ w <= pool
    /\ pcRun # "exited"
    /\ wpc[w] = "scoring"
    /\ LET i == wtask[w]
           e == RaisedBy(i, fault[i])
       IN
        /\ IF fault[i] = "ok"
           THEN /\ sampleFiles' = [sampleFiles EXCEPT
                                      ![i] = ScoringFiles(no_reactions, calc_metabolites)]
                /\ UNCHANGED <<stdout, stderr>>
                /\ exits' = [exits EXCEPT ![i] = <<ExitRecord("return", <<>>, w, stdout'[w], stderr'[w])>>]
                /\ outq' = Append(outq, [ok |-> TRUE, exc |-> <<>>])
           ELSE IF IsException(fault[i])
           THEN /\ stdout' = [stdout EXCEPT ![w] = stdout_bak[w]]
                /\ stderr' = [stderr EXCEPT ![w] = stderr_bak[w]]
                /\ exits' = [exits EXCEPT ![i] =
                                <<ExitRecord("raise", <<Translate(e)>>, w,
                                             stdout'[w], stderr'[w])>>]
                /\ outq' = Append(outq, [ok |-> FALSE, exc |-> <<Translate(e)>>])
                /\ UNCHANGED sampleFiles
           ELSE /\ exits' = [exits EXCEPT ![i] =
                                <<ExitRecord("raise", <<e>>, w, stdout[w], stderr[w])>>]
                /\ stdout' = [stdout EXCEPT ![w] = OrigStdout]
                /\ stderr' = [stderr EXCEPT ![w] = OrigStderr]
                /\ UNCHANGED <<outq, sampleFiles>>
    /\ wpc' = [wpc EXCEPT ![w] = "idle"]
    /\ wtask' = [wtask EXCEPT ![w] = 0]
    /\ stdout_bak' = [stdout_bak EXCEPT ![w] = <<>>]
    /\ stderr_bak' = [stderr_bak EXCEPT ![w] = <<>>]
    /\ UNCHANGED <<n_samples, fault, pcRun, pool, taskq, pbar, yielded, runError, started>>
    /\ UNCHANGED <<preVars, colVars, cacheVars, entVars>>

(***************************************************************************)
(* runCompassParallel: the orchestrator                                    *)
(***************************************************************************)

\* a broken iterator: a failed task is yielded like a result
NeverRaises(res) == FALSE

\* next() of the imap_unordered iterator raises the exception of a failed task
YieldRaises(res) == ~res.ok

\* a broken progress bar: two steps per result
PbarUpdateTwice(n) == n + 2

\* pbar.update()
PbarUpdate(n) == n + 1

\* clamp num_processes, read the number of samples, create the pool and
\* submit one task per sample index
RunStart ==
    /\ pcRun = "start"
    /\ num_processes' = <<ClampProcesses(num_processes, cpu_count)>>
    /\ pool' = num_processes'[1]
    /\ taskq' = [k \in 1..n_samples |-> k - 1]
    /\ pcRun' = "loop"
    /\ UNCHANGED <<cpu_count, n_reactions, n_metabs, chunk_size, chunks, pcPre>>
    /\ UNCHANGED <<n_samples, fault, outq, pbar, yielded, runError, wpc, wtask,
                   stdout, stderr, stdout_bak, stderr_bak, exits, started, sampleFiles>>
    /\ UNCHANGED <<colVars, cacheVars, entVars>>

\* one turn of the for loop: the next result in completion order
RunYield ==
    /\ pcRun = "loop"
    /\ outq # <<>>
    /\ outq' = Tail(outq)
    /\ IF YieldRaises(Head(outq))
       THEN /\ runError' = Head(outq).exc
            /\ pcRun' = "raised"
            /\ UNCHANGED <<pbar, yielded>>
       ELSE /\ yielded' = yielded + 1
            /\ pbar' = PbarUpdate(pbar)
            /\ UNCHANGED <<runError, pcRun>>
    /\ UNCHANGED <<n_samples, fault, pool, taskq, wpc, wtask, stdout, stderr,
                   stdout_bak, stderr_bak, exits, started, sampleFiles>>
    /\ UNCHANGED <<preVars, colVars, cacheVars, entVars>>

\* a broken iterator: it may stop before every task has delivered
StopsEarly(received, tasks) == received <= tasks

\* the imap_unordered iterator is exhausted once every task has delivered
\* its result
IteratorExhausted(received, tasks) == received = tasks

\* the for loop ends with the iterator
RunLoopEnd ==
    /\ pcRun = "loop"
    /\ IteratorExhausted(yielded, n_samples)
    /\ pcRun' = "collect"
    /\ UNCHANGED <<n_samples, fault, pool, taskq, outq, pbar, yielded, runError,
                   wpc, wtask, stdout, stderr, stdout_bak, stderr_bak, exits,
                   started, sampleFiles>>
    /\ UNCHANGED <<preVars, colVars, cacheVars, entVars>>

\* collectCompassResults(...) at the end of runCompassParallel
RunCollect ==
    /\ pcRun = "collect"
    /\ LET res == Collect(n_samples, sampleFiles, no_reactions, calc_metabolites) IN
        /\ outWrites' = outWrites \o res.writes
        /\ runError' = res.error
        /\ pcRun' = IF res.error # <<>> THEN "raised" ELSE "done"
    /\ UNCHANGED <<n_samples, fault, pool, taskq, outq, pbar, yielded,
                   wpc, wtask, stdout, stderr, stdout_bak, stderr_bak, exits,
                   started, sampleFiles>>
    /\ UNCHANGED <<preVars, no_reactions, calc_metabolites, pcCol, cacheVars, entVars>>

\* the orchestrator process ends, normally or with the error; the pool's
\* worker processes end with it
RunExit ==
    /\ pcRun \in {"raised", "done"}
    /\ pcRun' = "exited"
    /\ wpc' = [w \in Workers |-> "dead"]
    /\ UNCHANGED <<n_samples, fault, pool, taskq, outq, pbar, yielded, runError,
                   wtask, stdout, stderr, stdout_bak, stderr_bak, exits,
                   started, sampleFiles>>
    /\ UNCHANGED <<preVars, colVars, cacheVars, entVars>>

\* entry() with --collect: collectCompassResults alone, over whatever the
\* sample directories hold
CollectRun ==
    /\ pcCol = "start"
    /\ LET res == Collect(n_samples, sampleFiles, no_reactions, calc_metabolites) IN
        /\ outWrites' = outWrites \o res.writes
        /\ runError' = res.error
        /\ pcCol' = IF res.error # <<>> THEN "raised" ELSE "done"
    /\ UNCHANGED <<n_samples, fault, pcRun, pool, taskq, outq, pbar, yielded,
                   wpc, wtask, stdout, stderr, stdout_bak, stderr_bak, exits,
                   started, sampleFiles>>
    /\ UNCHANGED <<preVars, no_reactions, calc_metabolites, cacheVars, entVars>>

(***************************************************************************)
(* parseArgs and load_config                                               *)
(***************************************************************************)

\* the dictionary of a command line without options
DefaultArgs ==
    [data |-> FALSE, precache |-> FALSE, list_genes |-> FALSE, single_sample |-> <<>>,
     collect |-> FALSE, torque_queue |-> FALSE, generate_cache |-> FALSE,
     no_reactions |-> FALSE, calc_metabolites |-> FALSE, num_processes |-> <<>>,
     lambda |-> 0]

\* a broken load_config: the file is read and not applied
KeepCommandLine(a, cf) == a

\* load_config: the entries of the file overwrite those of the same name
LoadConfig(a, cf) == IF cf = <<>> THEN a ELSE Update(a, cf[1])

\* --generate-cache with --no-reactions or without --calc-metabolites
InvalidCombination(a) == a.generate_cache /\ (a.no_reactions \/ ~a.calc_metabolites)

\* the three calls of parser.error
UsageError(a) ==
    \/ ~a.data /\ ~a.precache /\ ~a.list_genes
    \/ a.lambda < 0 \/ a.lambda > 1
    \/ InvalidCombination(a)

(***************************************************************************)
(* entry                                                                   *)
(***************************************************************************)

\* nothing done yet by this invocation
DidNothing ==
    [dirs |-> FALSE, loads |-> 0, saves |-> 0, evals |-> 0, scored |-> <<>>,
     submitted |-> 0, found |-> <<>>]

\* a broken trigger: the flag is not looked at
OnlyWhenEmpty(size, flag) == size = 0

\* size_of_cache == 0 or args['precache']
NeedsPrecache(size, flag) == size = 0 \/ flag

\* a broken resume: the marker is not looked for
NeverExists(tok) == FALSE

\* os.path.exists(success_token)
TokenExists(tok) == tok

\* a broken dispatch: the queue is not looked at
AlwaysLocal(queue) == FALSE

\* args['torque_queue'] is not None
ToQueue(queue) == queue

\* args = parseArgs(): the command line, the config file over it, the checks
EntryParseArgs ==
    /\ pcEntry = "parse"
    /\ args' = LoadConfig(cli, config_file)
    /\ num_processes' = args'.num_processes
    /\ no_reactions' = args'.no_reactions
    /\ calc_metabolites' = args'.calc_metabolites
    /\ pcEntry' = IF UsageError(args') THEN "usage_error" ELSE "setup"
    /\ UNCHANGED <<cpu_count, n_reactions, n_metabs, chunk_size, chunks, pcPre>>
    /\ UNCHANGED <<pcCol, outWrites>>
    /\ UNCHANGED <<cli, config_file, size_of_cache, token, penalties, did, restarts>>
    /\ UNCHANGED <<runVars, cacheVars>>

\* the output and temporary directories and the logger, with --data
EntrySetup ==
    /\ pcEntry = "setup"
    /\ did' = [did EXCEPT !.dirs = args.data]
    /\ pcEntry' = "branch"
    /\ UNCHANGED <<cli, config_file, args, size_of_cache, token, penalties, restarts>>
    /\ UNCHANGED <<preVars, runVars, colVars, cacheVars>>

\* --list-genes: the gene list is written, or the write of the encoded
\* string to the text file raises, and entry ends
EntryListGenes ==
    /\ pcEntry = "branch"
    /\ args.list_genes
    /\ pcEntry' \in {"returned", "raised"}
    /\ UNCHANGED <<cli, config_file, args, size_of_cache, token, penalties, did, restarts>>
    /\ UNCHANGED <<preVars, runVars, colVars, cacheVars>>

\* the cache of the (model, media) key is loaded and precacheCompass is
\* called or not
EntryCacheCheck ==
    /\ pcEntry = "branch"
    /\ ~args.list_genes
    /\ model_cache' = CacheLoad(model_cache, store)
    /\ size_of_cache' = <<Size(model_cache'.map)>>
    /\ did' = [did EXCEPT !.loads = @ + 1]
    /\ IF NeedsPrecache(size_of_cache'[1], args.precache)
       THEN pcEntry' = "precache" /\ pcPre' = "start"
       ELSE pcEntry' = "mode" /\ UNCHANGED pcPre
    /\ UNCHANGED <<num_processes, cpu_count, n_reactions, n_metabs, chunk_size, chunks>>
    /\ UNCHANGED <<store, combined_cache, merged, prePools>>
    /\ UNCHANGED <<cli, config_file, args, token, penalties, restarts>>
    /\ UNCHANGED <<runVars, colVars>>

\* precacheCompass has returned: without --data entry returns
EntryAfterPrecache ==
    /\ pcEntry = "precache"
    /\ pcPre = "done"
    /\ pcEntry' = IF ~args.data THEN "returned" ELSE "mode"
    /\ UNCHANGED <<cli, config_file, args, size_of_cache, token, penalties, did, restarts>>
    /\ UNCHANGED <<preVars, runVars, colVars, cacheVars>>

\* --single-sample N: singleSampleCompass for N, and entry returns
EntrySingleSample ==
    /\ pcEntry = "mode"
    /\ args.single_sample # <<>>
    /\ did' = [did EXCEPT !.scored = Append(@, args.single_sample[1])]
    /\ sampleFiles' =
          [i \in DOMAIN sampleFiles |->
              IF i = args.single_sample[1]
              THEN ScoringFiles(no_reactions, calc_metabolites)
              ELSE sampleFiles[i]]
    /\ pcEntry' = "returned"
    /\ UNCHANGED <<n_samples, fault, pcRun, pool, taskq, outq, pbar, yielded, runError,
                   wpc, wtask, stdout, stderr, stdout_bak, stderr_bak, exits, started>>
    /\ UNCHANGED <<cli, config_file, args, size_of_cache, token, penalties, restarts>>
    /\ UNCHANGED <<preVars, colVars, cacheVars>>

\* --collect: collectCompassResults, and entry returns
EntryCollect ==
    /\ pcEntry = "mode"
    /\ args.single_sample = <<>>
    /\ args.collect
    /\ pcCol' = "start"
    /\ pcEntry' = "collect"
    /\ UNCHANGED <<no_reactions, calc_metabolites, outWrites>>
    /\ UNCHANGED <<cli, config_file, args, size_of_cache, token, penalties, did, restarts>>
    /\ UNCHANGED <<preVars, runVars, cacheVars>>

\* the marker of an earlier penalty evaluation is looked for
EntryTokenCheck ==
    /\ pcEntry = "mode"
    /\ args.single_sample = <<>>
    /\ ~args.collect
    /\ did' = [did EXCEPT !.found = <<TokenExists(token)>>]
    /\ pcEntry' = IF TokenExists(token) THEN "dispatch" ELSE "eval"
    /\ UNCHANGED <<cli, config_file, args, size_of_cache, token, penalties, restarts>>
    /\ UNCHANGED <<preVars, runVars, colVars, cacheVars>>

\* eval_reaction_penalties
EntryEval ==
    /\ pcEntry = "eval"
    /\ did' = [did EXCEPT !.evals = @ + 1]
    /\ pcEntry' = "to_csv"
    /\ UNCHANGED <<cli, config_file, args, size_of_cache, token, penalties, restarts>>
    /\ UNCHANGED <<preVars, runVars, colVars, cacheVars>>

\* penalties.to_csv opens the file, which truncates it
EntryToCsvOpen ==
    /\ pcEntry = "to_csv"
    /\ penalties' = "partial"
    /\ pcEntry' = "writing"
    /\ UNCHANGED <<cli, config_file, args, size_of_cache, token, did, restarts>>
    /\ UNCHANGED <<preVars, runVars, colVars, cacheVars>>

\* penalties.to_csv has written the table and closed the file
EntryToCsvClose ==
    /\ pcEntry = "writing"
    /\ penalties' = "complete"
    /\ pcEntry' = "token"
    /\ UNCHANGED <<cli, config_file, args, size_of_cache, token, did, restarts>>
    /\ UNCHANGED <<preVars, runVars, colVars, cacheVars>>

\* the marker is written
EntryToken ==
    /\ pcEntry = "token"
    /\ token' = TRUE
    /\ pcEntry' = "dispatch"
    /\ UNCHANGED <<cli, config_file, args, size_of_cache, penalties, did, restarts>>
    /\ UNCHANGED <<preVars, runVars, colVars, cacheVars>>

\* the job goes to the Torque queue and entry returns, or
\* runCompassParallel is called
EntryDispatch ==
    /\ pcEntry = "dispatch"
    /\ IF ToQueue(args.torque_queue)
       THEN /\ did' = [did EXCEPT !.submitted = @ + 1]
            /\ pcEntry' = "returned"
            /\ UNCHANGED pcRun
       ELSE /\ pcRun' = "start"
            /\ pcEntry' = "local"
            /\ UNCHANGED did
    /\ UNCHANGED <<n_samples, fault, pool, taskq, outq, pbar, yielded, runError,
                   wpc, wtask, stdout, stderr, stdout_bak, stderr_bak, exits, started,
                   sampleFiles>>
    /\ UNCHANGED <<cli, config_file, args, size_of_cache, token, penalties, restarts>>
    /\ UNCHANGED <<preVars, colVars, cacheVars>>

\* the positions at which an invocation of entry is under way
Running ==
    {"parse", "setup", "branch", "precache", "mode", "eval", "to_csv", "writing",
     "token", "dispatch"}

\* the process is killed or interrupted, wherever it is: what is on disk stays
EntryInterrupt ==
    /\ pcEntry \in Running
    /\ pcPre \notin PrecacheActive
    /\ pcEntry' = "interrupted"
    /\ UNCHANGED <<cli, config_file, args, size_of_cache, token, penalties, did, restarts>>
    /\ UNCHANGED <<preVars, runVars, colVars, cacheVars>>

\* the same command is run again, over the same directories
EntryRestart ==
    /\ pcEntry \in {"interrupted", "returned"}
    /\ restarts < MaxRestarts
    /\ restarts' = restarts + 1
    /\ pcEntry' = "parse"
    /\ did' = DidNothing
    /\ size_of_cache' = <<>>
    /\ model_cache' = [loaded |-> FALSE, map |-> <<>>]
    /\ combined_cache' = <<>>
    /\ merged' = {}
    /\ prePools' = <<>>
    /\ chunk_size' = 0
    /\ chunks' = <<>>
    /\ pcPre' = "idle"
    /\ UNCHANGED <<num_processes, cpu_count, n_reactions, n_metabs, store>>
    /\ UNCHANGED <<cli, config_file, args, token, penalties>>
    /\ UNCHANGED <<runVars, colVars>>

EntryNext ==
    \/ EntryParseArgs
    \/ EntrySetup
    \/ EntryListGenes
    \/ EntryCacheCheck
    \/ EntryAfterPrecache
    \/ EntrySingleSample
    \/ EntryCollect
    \/ EntryTokenCheck
    \/ EntryEval
    \/ EntryToCsvOpen
    \/ EntryToCsvClose
    \/ EntryToken
    \/ EntryDispatch

\* one invocation after the other of a run that goes to the queue
RestartNext ==
    \/ EntryParseArgs
    \/ EntrySetup
    \/ EntryCacheCheck
    \/ EntryTokenCheck
    \/ EntryEval
    \/ EntryToCsvOpen
    \/ EntryToCsvClose
    \/ EntryToken
    \/ EntryDispatch
    \/ EntryInterrupt
    \/ EntryRestart

\* parseArgs and what entry does with its result first
ParseNext ==
    \/ EntryParseArgs
    \/ EntrySetup

(***************************************************************************)
(* Initial states and specifications                                       *)
(***************************************************************************)

PreIdle ==
    /\ num_processes = <<>>
    /\ cpu_count = 1
    /\ n_reactions = 0
    /\ n_metabs = 0
    /\ chunk_size = 0
    /\ chunks = <<>>
    /\ pcPre = "idle"

\* the pool, the workers and the orchestrator before runCompassParallel
RunFresh ==
    /\ pool = 0
    /\ taskq = <<>>
    /\ outq = <<>>
    /\ pbar = 0
    /\ yielded = 0
    /\ runError = <<>>
    /\ wpc = [w \in Workers |-> "idle"]
    /\ wtask = [w \in Workers |-> 0]
    /\ stdout = [w \in Workers |-> OrigStdout]
    /\ stderr = [w \in Workers |-> OrigStderr]
    /\ stdout_bak = [w \in Workers |-> <<>>]
    /\ stderr_bak = [w \in Workers |-> <<>>]
    /\ exits = [i \in 0..(n_samples - 1) |-> <<>>]
    /\ started = [i \in 0..(n_samples - 1) |-> 0]

RunIdle ==
    /\ n_samples = 0
    /\ fault = <<>>
    /\ pcRun = "idle"
    /\ sampleFiles = <<>>
    /\ RunFresh

ColIdle ==
    /\ no_reactions = FALSE
    /\ calc_metabolites = FALSE
    /\ pcCol = "idle"
    /\ outWrites = <<>>

CacheIdle ==
    /\ store = <<>>
    /\ model_cache = [loaded |-> FALSE, map |-> <<>>]
    /\ combined_cache = <<>>
    /\ merged = {}
    /\ prePools = <<>>

EntIdle ==
    /\ cli = DefaultArgs
    /\ config_file = <<>>
    /\ args = DefaultArgs
    /\ pcEntry = "idle"
    /\ size_of_cache = <<>>
    /\ token = FALSE
    /\ penalties = "absent"
    /\ did = DidNothing
    /\ restarts = 0

\* a precompute run, called with --precache and without --data: any model
\* size, any requested and available process count, any earlier entry
PrecacheInit ==
    /\ PreInit
    /\ RunIdle
    /\ ColIdle
    /\ store \in StoreChoices(n_reactions, n_metabs)
    /\ model_cache = [loaded |-> TRUE, map |-> store]
    /\ combined_cache = <<>>
    /\ merged = {}
    /\ prePools = <<>>
    /\ cli = [DefaultArgs EXCEPT !.precache = TRUE, !.num_processes = num_processes]
    /\ config_file = <<>>
    /\ args = cli
    /\ pcEntry = "precache"
    /\ size_of_cache = <<Size(store)>>
    /\ token = FALSE
    /\ penalties = "absent"
    /\ did = [DidNothing EXCEPT !.loads = 1]
    /\ restarts = 0

\* a local run under the default flags: any number of samples, of which at
\* most MaxFaults fail
RunInit ==
    /\ num_processes \in {<<>>} \cup {<<r>> : r \in 1..MaxRequested}
    /\ cpu_count \in 1..MaxWorkers
    /\ n_reactions = 0 /\ n_metabs = 0 /\ chunk_size = 0 /\ chunks = <<>>
    /\ pcPre = "idle"
    /\ n_samples \in 0..MaxSamples
    /\ fault \in {f \in [0..(n_samples - 1) -> {"ok"} \cup RunFaults] :
                    Cardinality({i \in DOMAIN f : f[i] # "ok"}) <= MaxFaults}
    /\ pcRun = "start"
    /\ sampleFiles = [i \in 0..(n_samples - 1) |-> {}]
    /\ RunFresh
    /\ no_reactions = FALSE
    /\ calc_metabolites = FALSE
    /\ pcCol = "idle"
    /\ outWrites = <<>>
    /\ CacheIdle
    /\ EntIdle

\* one worker process of a pool, alone: it calls _parallel_map_fun for one
\* sample after the other, and each sample returns or fails in any way
SampleInit ==
    /\ PreIdle
    /\ n_samples \in 1..MaxSamples
    /\ fault \in [0..(n_samples - 1) -> {"ok"} \cup Faults]
    /\ pcRun = "loop"
    /\ sampleFiles = [i \in 0..(n_samples - 1) |-> {}]
    /\ pool = 1
    /\ taskq = [k \in 1..n_samples |-> k - 1]
    /\ outq = <<>>
    /\ pbar = 0
    /\ yielded = 0
    /\ runError = <<>>
    /\ wpc = [w \in Workers |-> "idle"]
    /\ wtask = [w \in Workers |-> 0]
    /\ stdout = [w \in Workers |-> OrigStdout]
    /\ stderr = [w \in Workers |-> OrigStderr]
    /\ stdout_bak = [w \in Workers |-> <<>>]
    /\ stderr_bak = [w \in Workers |-> <<>>]
    /\ exits = [i \in 0..(n_samples - 1) |-> <<>>]
    /\ started = [i \in 0..(n_samples - 1) |-> 0]
    /\ no_reactions \in BOOLEAN
    /\ calc_metabolites \in BOOLEAN
    /\ pcCol = "idle"
    /\ outWrites = <<>>
    /\ CacheIdle
    /\ EntIdle

\* a collect run: any subset of the per-sample files is there
ColInit ==
    /\ PreIdle
    /\ n_samples \in 0..MaxCollect
    /\ fault = [i \in 0..(n_samples - 1) |-> "ok"]
    /\ pcRun = "idle"
    /\ sampleFiles \in [0..(n_samples - 1) -> SUBSET Kinds]
    /\ RunFresh
    /\ no_reactions \in BOOLEAN
    /\ calc_metabolites \in BOOLEAN
    /\ pcCol = "start"
    /\ outWrites = <<>>
    /\ CacheIdle
    /\ EntIdle

\* what an invocation of entry starts from, the command line apart
EntryFresh ==
    /\ args = DefaultArgs
    /\ num_processes = <<>>
    /\ no_reactions = FALSE
    /\ calc_metabolites = FALSE
    /\ chunk_size = 0
    /\ chunks = <<>>
    /\ pcPre = "idle"
    /\ model_cache = [loaded |-> FALSE, map |-> <<>>]
    /\ combined_cache = <<>>
    /\ merged = {}
    /\ prePools = <<>>
    /\ fault = [i \in 0..(n_samples - 1) |-> "ok"]
    /\ pcRun = "idle"
    /\ sampleFiles = [i \in 0..(n_samples - 1) |-> {}]
    /\ RunFresh
    /\ pcCol = "idle"
    /\ outWrites = <<>>
    /\ pcEntry = "parse"
    /\ size_of_cache = <<>>
    /\ did = DidNothing
    /\ restarts = 0

\* the compass command under the default scoring flags: every combination
\* of the options that select what runs, any state of the cache, the
\* penalties evaluated by an earlier run or not
EntryInit ==
    /\ cli \in {[DefaultArgs EXCEPT !.data = d, !.precache = p, !.list_genes = l,
                                    !.single_sample = s, !.collect = c,
                                    !.torque_queue = t, !.num_processes = np] :
                  d \in BOOLEAN, p \in BOOLEAN, l \in BOOLEAN, s \in {<<>>, <<0>>},
                  c \in BOOLEAN, t \in BOOLEAN,
                  np \in {<<>>} \cup {<<r>> : r \in 1..(MaxEntryCpu + 1)}}
    /\ config_file = <<>>
    /\ cpu_count \in 1..MaxEntryCpu
    /\ n_reactions \in 1..MaxEntryItems
    /\ n_metabs \in 1..MaxEntryItems
    /\ n_samples \in 1..MaxEntrySamples
    /\ store \in StoreChoices(n_reactions, n_metabs)
    /\ token \in BOOLEAN
    /\ penalties = IF token THEN "complete" ELSE "absent"
    /\ EntryFresh

\* the entries a config file may hold for the three options of the check
ConfigChoices ==
    UNION {[S -> BOOLEAN] :
             S \in SUBSET {"generate_cache", "no_reactions", "calc_metabolites"}}

\* parseArgs: every command line and every config file over the options
\* that the checks read
ParseInit ==
    /\ cli \in {[DefaultArgs EXCEPT !.data = d, !.precache = p, !.generate_cache = g,
                                    !.no_reactions = n, !.calc_metabolites = m,
                                    !.lambda = x] :
                  d \in BOOLEAN, p \in BOOLEAN, g \in BOOLEAN, n \in BOOLEAN,
                  m \in BOOLEAN, x \in {0, 2}}
    /\ config_file \in {<<>>} \cup {<<f>> : f \in ConfigChoices}
    /\ cpu_count = 1
    /\ n_reactions = 1
    /\ n_metabs = 1
    /\ n_samples = 1
    /\ store = <<>>
    /\ token = FALSE
    /\ penalties = "absent"
    /\ EntryFresh

\* a run that goes to the queue, over a built cache and over directories
\* that are clean or hold what an earlier run, finished or not, has left
RestartInit ==
    /\ cli = [DefaultArgs EXCEPT !.data = TRUE, !.torque_queue = TRUE]
    /\ config_file = <<>>
    /\ cpu_count = 1
    /\ n_reactions = 1
    /\ n_metabs = 1
    /\ n_samples = 1
    /\ store = [k \in ReactionKeys(1) \cup MetabKeys(1) |-> "stored"]
    /\ token \in BOOLEAN
    /\ penalties \in IF token THEN {"complete"} ELSE {"absent", "partial", "complete"}
    /\ EntryFresh

RunNext ==
    \/ RunStart
    \/ \E w \in Workers : WStart(w)
    \/ \E w \in Workers : WScore(w)
    \/ RunYield
    \/ RunLoopEnd
    \/ RunCollect
    \/ RunExit

SampleNext ==
    \/ \E w \in Workers : WStart(w)
    \/ \E w \in Workers : WScore(w)

ColNext == CollectRun

\* precacheCompass
SpecPrecache == PrecacheInit /\ [][PreNext]_vars

\* runCompassParallel with its pool
SpecRun == RunInit /\ [][RunNext]_vars

\* _parallel_map_fun, called by one worker process
SpecSample == SampleInit /\ [][SampleNext]_vars

\* entry() with --collect
SpecCollect == ColInit /\ [][ColNext]_vars

\* the compass command, from the command line to the end of what it runs
SpecEntry == EntryInit /\ [][EntryNext \/ PreNext \/ RunNext \/ ColNext]_vars

\* parseArgs
SpecParse == ParseInit /\ [][ParseNext]_vars

\* the command, interrupted and run again
SpecRestart == RestartInit /\ [][RestartNext]_vars

Init ==
    \/ PrecacheInit
    \/ RunInit
    \/ SampleInit
    \/ ColInit
    \/ EntryInit
    \/ ParseInit
    \/ RestartInit
Next ==
    \/ PreNext
    \/ RunNext
    \/ ColNext
    \/ EntryNext
    \/ EntryInterrupt
    \/ EntryRestart
Spec == Init /\ [][Next]_vars

(***************************************************************************)
(* Properties                                                              *)
(***************************************************************************)

\* the domain the current chunk list was built for
TotalItems == IF pcPre = "reactions" THEN n_reactions ELSE n_metabs
ChunksBuilt == pcPre \in {"reactions", "metabs"}

\* C1: the chunk list built for the reactions and for the metabolites has
\* exactly num_processes chunks, the index sets of the chunks are pairwise
\* disjoint and their union is [0, totalItems).
C1_PartitionCovers ==
    ChunksBuilt =>
        /\ Len(chunks) = num_processes[1]
        /\ \A j, k \in 1..Len(chunks) :
              j # k => IndexSet(chunks[j]) \cap IndexSet(chunks[k]) = {}
        /\ UNION {IndexSet(chunks[k]) : k \in 1..Len(chunks)} = 0..(TotalItems - 1)

\* 7 reactions, 3 workers: [(0,3),(3,6),(6,7)]
C1_Witness ==
    /\ pcPre = "reactions"
    /\ n_reactions = 7
    /\ num_processes = <<3>>
    /\ chunks = << <<0, 3>>, <<3, 6>>, <<6, 7>> >>

\* C2: every chunk (start, stop) is a well-formed interval,
\* 0 <= start <= stop <= totalItems, and a chunk without work has start = stop.
C2_ChunksWellFormed ==
    ChunksBuilt =>
        \A k \in 1..Len(chunks) :
            /\ 0 <= chunks[k][1]
            /\ chunks[k][1] <= chunks[k][2]
            /\ chunks[k][2] <= TotalItems
            /\ IndexSet(chunks[k]) = {} => chunks[k][1] = chunks[k][2]

Ended(i) == exits[i] # <<>>
ExitOf(i) == exits[i][1]
Samples == 0..(n_samples - 1)

\* C3: when _parallel_map_fun returns normally, stdout and stderr of the
\* process are the streams that were in place before the call.
C3_StreamsRestoredOnReturn ==
    \A i \in Samples :
        (Ended(i) /\ ExitOf(i).how = "return") =>
            /\ ExitOf(i).out = ExitOf(i).bak_out
            /\ ExitOf(i).err = ExitOf(i).bak_err

\* C4: whatever exception leaves _parallel_map_fun, raised at any point
\* after the redirection, stdout and stderr are the original streams again
\* when it leaves.
C4_StreamsRestoredOnRaise ==
    \A i \in Samples :
        (Ended(i) /\ ExitOf(i).how = "raise") =>
            /\ ExitOf(i).out = ExitOf(i).bak_out
            /\ ExitOf(i).err = ExitOf(i).bak_err

\* the classes of the model whose type name contains "cplex" in any case
CplexNamed == {"CplexSolverError", "CPLEXError"}

\* C5: when the scoring call raises, the function raises too (nothing is
\* swallowed): a plain Exception with the original message, a new object,
\* when the type name contains "cplex" in any case, and the very same
\* exception object otherwise.
C5_Translation ==
    \A i \in Samples :
        (Ended(i) /\ fault[i] \in ScoringClasses) =>
            /\ ExitOf(i).how = "raise"
            /\ Len(ExitOf(i).exc) = 1
            /\ LET raised == ExitOf(i).exc[1]
                   orig == RaisedBy(i, fault[i])
               IN  IF fault[i] \in CplexNamed
                   THEN /\ raised.cls = "Exception"
                        /\ raised.msg = orig.msg
                        /\ raised.oid # orig.oid
                   ELSE raised = orig

C5_Witness ==
    \E i, j, k \in Samples :
        /\ Ended(i) /\ fault[i] = "CPLEXError"
        /\ Ended(j) /\ fault[j] = "ValueError"
        /\ Ended(k) /\ fault[k] = "CplexSolverError"

\* the samples whose call has returned normally
Returned == {i \in Samples : Ended(i) /\ ExitOf(i).how = "return"}

\* C6: every sample index is run at most once, the progress counter equals
\* the number of results received and never exceeds the number of completed
\* tasks, and when the loop ends without an error there were exactly
\* n_samples results, every sample was run exactly once and the progress
\* counter is n_samples.
C6_EachSampleOnce ==
    /\ \A i \in Samples : started[i] <= 1
    /\ pbar = yielded
    /\ pbar <= Cardinality(Returned)
    /\ pcRun \in {"collect", "done"} =>
          /\ yielded = n_samples
          /\ pbar = n_samples
          /\ \A i \in Samples : started[i] = 1 /\ Ended(i)

C6_Witness ==
    /\ pcRun = "done"
    /\ n_samples = 4
    /\ pool = 2
    /\ pbar = 4

\* the result loop was left by an exception
LoopRaised == pcRun \in {"raised", "exited"} /\ yielded < n_samples

Scenario4 ==
    /\ n_samples = 4
    /\ fault = [i \in 0..3 |-> IF i = 2 THEN "CplexSolverError" ELSE "ok"]

\* the error the orchestrator ends with carries only the message of the
\* solver error of sample 2
MessageOnly ==
    /\ Len(runError) = 1
    /\ runError[1].cls = "Exception"
    /\ runError[1].msg = RaisedBy(2, "CplexSolverError").msg

\* C8 as stated: in the scenario the run ends with a message-only error and
\* without result files of sample 3 and beyond.
C8_NoFilesFrom3 ==
    (Scenario4 /\ pcRun = "exited") =>
        /\ MessageOnly
        /\ \A i \in Samples : i >= 3 => sampleFiles[i] = {}

\* C8, amended: in the scenario the run ends with a message-only error,
\* the collector has not run and nothing was written into the output
\* directory.
C8_NoAggregate ==
    (Scenario4 /\ pcRun = "exited") =>
        /\ MessageOnly
        /\ outWrites = <<>>

C8_Witness ==
    /\ Scenario4
    /\ pcRun = "exited"
    /\ MessageOnly
    /\ sampleFiles[3] # {}

\* the per-sample file an aggregated table is built from
KindOf(name) ==
    CASE name = "reactions.tsv" -> "reactions.txt"
      [] name = "secretions.tsv" -> "secretions.txt"
      [] name = "uptake.tsv" -> "uptake.txt"

Tables == {"reactions.tsv", "secretions.tsv", "uptake.tsv"}
EnabledTables ==
    (IF no_reactions THEN {} ELSE {"reactions.tsv"})
    \cup (IF calc_metabolites THEN {"secretions.tsv", "uptake.tsv"} ELSE {})
Written == {outWrites[k].name : k \in 1..Len(outWrites)}
Count(name) == Cardinality({k \in 1..Len(outWrites) : outWrites[k].name = name})

\* C9: with at least one sample the collector does not fail, whichever
\* per-sample files are absent; every enabled table is written with exactly
\* one column per sample, named after the sample and in sample order, and
\* the column of a sample whose file is absent holds no value.
C9_MissingFilesTolerated ==
    pcCol \in {"done", "raised"} =>
        /\ n_samples >= 1 => (pcCol = "done" /\ runError = <<>> /\ EnabledTables \subseteq Written)
        /\ \A k \in 1..Len(outWrites) :
              outWrites[k].name \in Tables =>
                  LET t == outWrites[k].content
                      kind == KindOf(outWrites[k].name)
                  IN  /\ Len(t.columns) = n_samples
                      /\ Len(t.cells) = n_samples
                      /\ \A i \in Samples :
                            /\ t.columns[i + 1] = SampleName(i)
                            /\ kind \notin sampleFiles[i] =>
                                  \A r \in t.index : t.cells[i + 1][r] = NaN
                            /\ kind \in sampleFiles[i] =>
                                  \A r \in RowsOf(i) : t.cells[i + 1][r] # NaN

\* samples 0 and 1 present, sample 2 absent, out of 3
C9_Witness ==
    /\ pcCol = "done"
    /\ n_samples = 3
    /\ ~no_reactions
    /\ sampleFiles = [i \in 0..2 |-> IF i = 2 THEN {} ELSE Kinds]
    /\ \E k \in 1..Len(outWrites) :
          /\ outWrites[k].name = "reactions.tsv"
          /\ Len(outWrites[k].content.columns) = 3
          /\ outWrites[k].content.index = {"r1", "r2", "r3"}

\* C10: a call of the collector writes reactions.tsv iff reactions are
\* enabled, secretions.tsv and uptake.tsv iff calc_metabolites, and
\* model.json.gz exactly once, for every configuration and sample count.
C10_ArtifactsByConfig ==
    pcCol \in {"done", "raised"} =>
        /\ Count("reactions.tsv") = (IF no_reactions THEN 0 ELSE 1)
        /\ Count("secretions.tsv") = (IF calc_metabolites THEN 1 ELSE 0)
        /\ Count("uptake.tsv") = (IF calc_metabolites THEN 1 ELSE 0)
        /\ Count("model.json.gz") = 1

\* the cache check of entry has been made
Checked == size_of_cache # <<>>

\* precacheCompass has been called
PrecacheCalled == pcPre # "idle"

\* C11: precacheCompass runs if and only if the mapping loaded for the
\* (model, media) key is empty or the precache flag is set; with a
\* non-empty mapping and without the flag no precompute pool is created and
\* the cache is not saved.
C11_PrecacheTrigger ==
    /\ ~Checked => ~PrecacheCalled
    /\ Checked /\ pcPre # "done" => size_of_cache[1] = Size(store)
    /\ Checked => (PrecacheCalled <=> (size_of_cache[1] = 0 \/ cli.precache))
    /\ Checked /\ size_of_cache[1] > 0 /\ ~cli.precache =>
          /\ prePools = <<>>
          /\ did.saves = 0
          /\ chunks = <<>>

\* the flag forces the precompute over a built cache
C11_Witness ==
    /\ cli.precache
    /\ size_of_cache = <<2>>
    /\ pcPre = "done"
    /\ Len(prePools) = 2
    /\ did.saves = 1

\* every reaction and metabolite identifier of the model
ModelKeys == ReactionKeys(n_reactions) \cup MetabKeys(n_metabs)

\* C12: starting from an empty entry, once the precompute has completed,
\* loading the (model, media) key, in this process or in a later one,
\* returns a non-empty mapping that holds every reaction identifier and
\* every metabolite identifier of the model.
C12_CacheCoversModel ==
    size_of_cache = <<0>> /\ pcPre = "done" =>
        \A mc \in {model_cache, [loaded |-> FALSE, map |-> <<>>]} :
            LET m == CacheLoad(mc, store).map IN
                /\ Size(m) > 0
                /\ ModelKeys \subseteq DOMAIN m
                /\ \A k \in ModelKeys : m[k] = "computed"

C12_Witness ==
    /\ size_of_cache = <<0>>
    /\ pcPre = "done"
    /\ did.saves = 1
    /\ DOMAIN store = ModelKeys
    /\ n_reactions = MaxEntryItems
    /\ n_metabs = MaxEntryItems

\* C13: with the precache flag set and a non-empty existing entry, the
\* mapping saved at the end of the precompute is the mapping of the
\* recomputed chunks alone: nothing of the previously stored mapping is in it.
C13_IgnoresExisting ==
    cli.precache /\ Checked /\ size_of_cache[1] > 0 /\ pcPre = "done" =>
        store = [k \in ModelKeys |-> "computed"]

\* C14: a run with the collect flag set creates no precompute pool, does not
\* save the cache, evaluates no penalties, scores no sample and submits
\* nothing, whatever the cache holds and whatever the other flags are.
C14_CollectOnly ==
    cli.collect /\ pcEntry \notin {"parse", "usage_error"} =>
        /\ ~PrecacheCalled
        /\ prePools = <<>>
        /\ did.saves = 0
        /\ did.evals = 0
        /\ did.scored = <<>>
        /\ did.submitted = 0
        /\ pcRun = "idle"
        /\ pcEntry = "returned" => pcCol \in {"done", "raised"}

\* C15: a run with single-sample=N builds no chunk list and creates no pool,
\* calls the single-sample scoring exactly once, for N, and returns without
\* collecting, whatever the cache holds.
C15_SingleSampleOnly ==
    cli.single_sample # <<>> /\ pcEntry \notin {"parse", "usage_error"} =>
        /\ chunks = <<>>
        /\ prePools = <<>>
        /\ pool = 0
        /\ pcRun = "idle"
        /\ pcCol = "idle"
        /\ outWrites = <<>>
        /\ did.scored \in {<<>>, cli.single_sample}
        /\ pcEntry = "returned" => did.scored = cli.single_sample

\* the run is one for the queue
QueueRun == cli.torque_queue /\ cli.single_sample = <<>> /\ ~cli.collect

\* C16: with a torque queue and neither single-sample nor collect, entry
\* submits the job and returns with the submission: no local pool of sample
\* workers is created, no sample result is waited for and
\* collectCompassResults is not run.
C16_QueueReturnsAtOnce ==
    /\ QueueRun =>
          /\ pcRun = "idle"
          /\ pool = 0
          /\ pcCol = "idle"
          /\ outWrites = <<>>
          /\ did.submitted <= 1
          /\ pcEntry = "returned" /\ cli.data /\ ~cli.list_genes => did.submitted = 1
    /\ did.submitted > 0 => QueueRun /\ pcEntry = "returned"

C16_Witness ==
    /\ QueueRun
    /\ did.submitted = 1
    /\ pcEntry = "returned"
    /\ token
    /\ penalties = "complete"

\* the value of an option once the config file is applied
Effective(k) ==
    IF config_file # <<>> /\ k \in DOMAIN config_file[1]
    THEN config_file[1][k]
    ELSE cli[k]

InvalidGiven ==
    Effective("generate_cache")
        /\ (Effective("no_reactions") \/ ~Effective("calc_metabolites"))

OtherUsageError ==
    \/ ~cli.data /\ ~cli.precache /\ ~cli.list_genes
    \/ cli.lambda \notin 0..1

NothingDone ==
    /\ did = DidNothing
    /\ ~model_cache.loaded
    /\ ~PrecacheCalled
    /\ prePools = <<>>
    /\ pcRun = "idle"
    /\ pool = 0
    /\ pcCol = "idle"
    /\ outWrites = <<>>
    /\ penalties = "absent"
    /\ ~token

\* C17: the check of generate-cache against no-reactions and
\* calc-metabolites reads the values the config file has overwritten, and
\* an invalid combination, from the command line or from the config file,
\* ends the run there: no directory is created, no cache is loaded, no
\* precompute or penalty evaluation starts, no sample is dispatched and no
\* step of the command follows.
C17_ValidationAfterMerge ==
    pcEntry # "parse" =>
        /\ pcEntry = "usage_error" <=> (InvalidGiven \/ OtherUsageError)
        /\ pcEntry = "usage_error" => NothingDone /\ ~ENABLED Next

\* a valid command line made invalid by the config file
C17_Witness ==
    /\ pcEntry = "usage_error"
    /\ cli.data
    /\ cli.lambda = 0
    /\ ~cli.generate_cache
    /\ config_file = <<[k \in {"generate_cache"} |-> TRUE]>>
    /\ args.generate_cache

\* the sub_cache of chunk k of the current list
SubCacheOf(k) ==
    SubCache(IF pcPre = "reactions" THEN "reaction" ELSE "metabolite", chunks[k])

\* the entries the chunks received so far have computed
ReceivedKeys ==
    (IF pcPre = "metabs" THEN ReactionKeys(n_reactions) ELSE {})
        \cup UNION {DOMAIN SubCacheOf(k) : k \in merged}

\* C18: over the chunk results, which have disjoint keys, the merge is
\* commutative and idempotent, and the combined cache holds exactly the
\* entries of the chunks received, whatever the order they arrived in; at
\* the end of the precompute it holds every entry.
C18_MergeOrderFree ==
    /\ ChunksBuilt =>
          /\ \A j, k \in 1..Len(chunks) :
                /\ j # k => DOMAIN SubCacheOf(j) \cap DOMAIN SubCacheOf(k) = {}
                /\ Update(SubCacheOf(j), SubCacheOf(k)) = Update(SubCacheOf(k), SubCacheOf(j))
                /\ Update(SubCacheOf(j), SubCacheOf(j)) = SubCacheOf(j)
          /\ combined_cache = [k \in ReceivedKeys |-> "computed"]
    /\ pcPre = "done" => combined_cache = [k \in ModelKeys |-> "computed"]

\* three chunks of reactions and of metabolites, all received
C18_Witness ==
    /\ pcPre = "metabs"
    /\ num_processes = <<3>>
    /\ n_reactions = 7
    /\ n_metabs = 5
    /\ merged = {1, 2, 3}
    /\ Size(combined_cache) = 12

\* min(requested, cpu count), the cpu count without a request
ExpectedWorkers ==
    IF cli.num_processes = <<>> THEN cpu_count
    ELSE IF cli.num_processes[1] < cpu_count THEN cli.num_processes[1]
    ELSE cpu_count

\* C19: the pools of the precompute and the pool of the local scoring have
\* min(requested num-processes, cpu count) worker processes, the cpu count
\* when num-processes is not given, and never more than the cpu count.
C19_WorkerCount ==
    /\ \A i \in 1..Len(prePools) :
          prePools[i] = ExpectedWorkers /\ prePools[i] <= cpu_count
    /\ pcRun \notin {"idle", "start"} =>
          pool = ExpectedWorkers /\ pool <= cpu_count

\* more processes requested than there are, in both phases of one run
C19_Witness ==
    /\ cli.num_processes = <<MaxEntryCpu + 1>>
    /\ cpu_count = MaxEntryCpu
    /\ prePools = <<MaxEntryCpu, MaxEntryCpu>>
    /\ pcRun = "done"
    /\ pool = MaxEntryCpu

\* C20: in every state, interruptions and restarts included, the marker
\* is there only if penalties.txt.gz is completely written; the marker is
\* written only after the file; an invocation that finds the marker
\* evaluates nothing and leaves the file alone, and one that does not find
\* it evaluates once, writes the whole file and then the marker.
C20_TokenMeansComplete ==
    /\ [](token => penalties = "complete")
    /\ [][~token /\ token' => penalties = "complete" /\ penalties' = "complete"]_vars
    /\ [](did.found = <<TRUE>> => did.evals = 0)
    /\ [][did.found = <<TRUE>> => penalties' = penalties /\ token']_vars
    /\ [](did.found = <<FALSE>> /\ pcEntry \in {"dispatch", "returned"} =>
            did.evals = 1 /\ token /\ penalties = "complete")

\* interrupted before the marker, started again, the evaluation redone
C20_Witness ==
    /\ restarts = 1
    /\ did.found = <<FALSE>>
    /\ did.evals = 1
    /\ token
    /\ penalties = "complete"
    /\ pcEntry = "returned"

\* a sample task is taken by a worker and not finished, or not taken yet
InFlight(i) == ~Ended(i)

\* every sample task has completed without error, and nothing is under way
AllSamplesDone ==
    /\ \A i \in Samples : started[i] = 1 /\ Ended(i) /\ ExitOf(i).how = "return"
    /\ taskq = <<>>
    /\ outq = <<>>
    /\ \A w \in Workers : wpc[w] # "scoring"

\* the step is a call of collectCompassResults by runCompassParallel
CollectCalled ==
    \/ outWrites' # outWrites
    \/ pcRun = "collect" /\ pcRun' # "collect"

\* C22: in a local run collectCompassResults is called at most once, and
\* only when all n_samples sample tasks have completed without error: not
\* before the result loop has ended, not while a sample task is in flight,
\* and not after a sample task has raised.
C22_CollectAfterAllSamples ==
    /\ [](pcRun \in {"start", "loop"} => outWrites = <<>>)
    /\ [][CollectCalled =>
            /\ pcRun = "collect"
            /\ pcRun' \in {"done", "raised"}
            /\ AllSamplesDone
            /\ \A i \in Samples : ~InFlight(i)]_vars
    /\ [][(pcRun \in {"done", "raised", "exited"}) =>
            (outWrites' = outWrites /\ pcRun' # "collect")]_vars
    /\ []((\E i \in Samples : Ended(i) /\ ExitOf(i).how # "return") =>
            pcRun # "collect" /\ outWrites = <<>>)

\* three samples over two workers, collected
C22_Witness ==
    /\ pcRun = "done"
    /\ n_samples = 3
    /\ pool = 2
    /\ yielded = 3
    /\ outWrites # <<>>

\* the step persists something for the (model, media) key
Persists == store' # store \/ did'.saves # did.saves

\* every chunk of the reactions and of the metabolites has returned
AllChunksReturned ==
    /\ pcPre = "metabs"
    /\ merged = 1..Len(chunks)
    /\ Len(prePools) = 2
    /\ DOMAIN combined_cache = ModelKeys

\* precacheCompass has ended without reaching the save
EndedBeforeSave == pcPre \in {"raised", "interrupted"}

\* C21: precacheCompass saves the cache exactly once, and only when every
\* reaction chunk and every metabolite chunk has returned; a run that is
\* interrupted or in which a chunk worker fails before the save leaves the
\* persisted entry as it was, with no chunk result in it.
C21_SaveOnceAfterAllChunks ==
    /\ [](did.saves = (IF pcPre = "done" THEN 1 ELSE 0))
    /\ [][Persists =>
            /\ AllChunksReturned
            /\ pcPre' = "done"
            /\ did'.saves = did.saves + 1]_vars
    /\ [][(pcPre' # "done" \/ pcPre = "done") => store' = store]_vars
    /\ [](pcPre # "done" =>
            /\ store = model_cache.map
            /\ \A k \in DOMAIN store : store[k] = "stored")

\* a metabolite chunk fails after every reaction chunk and one metabolite
\* chunk have been merged: the stored entry is the old one
C21_Witness ==
    /\ pcPre = "raised"
    /\ Len(prePools) = 2
    /\ merged # {}
    /\ Size(combined_cache) > n_reactions
    /\ n_reactions = 7
    /\ Size(store) > 0
    /\ \A k \in DOMAIN store : store[k] = "stored"

====
